---------------------------- MODULE Spec2Model ----------------------------
(* Job attempt resolver of the rest-server (models/v2/job-attempt.js):      *)
(* healthCheck, list and get, together with the two stores they read:       *)
(* the framework object of the Kubernetes API and the snapshot documents    *)
(* of the Elasticsearch index 'framework'.                                  *)
(* One job name is followed: encodeName(frameworkName) only selects the     *)
(* path of the framework object that is read.                               *)
EXTENDS Integers, Sequences, FiniteSets

(* ------------------------------ bounds --------------------------------- *)
\* largest spec.retryPolicy.maxRetryCount a submitted framework gets
MaxRetry == 1
\* number of framework objects (uids) the orchestrator creates
MaxUid == 2
\* number of snapshot documents the ingestion pipeline writes
MaxClock == 2
\* maxRetryCount of the long-running framework of SpecDeep
DeepRetry == 11

\* Elasticsearch's number of buckets of a terms aggregation that sets no size
TermsDefaultSize == 10

VARIABLES
  launcherType,   \* launcherConfig.type
  esClient,       \* TRUE iff elasticSearchClient was created at start
  esHealth,       \* what the index answers to cat.health() at present
  framework,      \* the framework object the Kubernetes API holds for the job
  nextUid,        \* the uid the next created framework object gets
  index,          \* the documents of the index 'framework'
  clock,          \* collectTime of the last document written
  pc,             \* position of the call in flight
  op,             \* the operation called
  jobAttemptIndex,\* the argument of get
  caught,         \* the catch block of the Kubernetes read was entered
  response,       \* local variable response
  uid,            \* local variable uid
  attemptData,    \* local variable attemptData of list
  esResult,       \* hits of the search response, in order
  ret,            \* what the call returned or threw
  esSearchCalls,  \* calls of elasticSearchClient.search during the call
  k8sGetCalls     \* calls of k8sModel.getClient().get during the call

envVars == <<launcherType, esClient, esHealth, framework, nextUid, index, clock>>
callVars == <<pc, op, jobAttemptIndex, caught, response, uid, attemptData,
              esResult, ret, esSearchCalls, k8sGetCalls>>
vars == <<envVars, callVars>>

(* ------------------------------ values --------------------------------- *)
\* no framework object: uid 0 is no uid
NoFramework == [uid |-> 0, maxRetryCount |-> 0, attemptId |-> 0]
NoUid == 0
NoResponse == [status |-> 0, message |-> "", data |-> NoFramework]
NoRet == [kind |-> "none", status |-> 0, null |-> TRUE, data |-> <<>>,
          bool |-> FALSE, message |-> ""]

\* {status: s, data: d}
Return(s, d) == [kind |-> "return", status |-> s, null |-> FALSE, data |-> d,
                 bool |-> FALSE, message |-> ""]
\* {status: s, data: null}
ReturnNull(s) == [kind |-> "return", status |-> s, null |-> TRUE, data |-> <<>>,
                  bool |-> FALSE, message |-> ""]
\* return of a boolean
ReturnBool(b) == [kind |-> "return", status |-> 0, null |-> TRUE, data |-> <<>>,
                  bool |-> b, message |-> ""]
\* a thrown error; status 0 when the error carries none
Throw(s, m) == [kind |-> "throw", status |-> s, null |-> TRUE, data |-> <<>>,
                bool |-> FALSE, message |-> m]

(* JavaScript values, as far as the conditions of the file need them *)
JsString(s) == [t |-> "string", s |-> s, b |-> FALSE]
JsBoolean(b) == [t |-> "boolean", s |-> "", b |-> b]
JsFunction(name) == [t |-> "function", s |-> name, b |-> FALSE]
\* a === b: no conversion; values of different types are never equal
StrictEquals(a, b) == a.t = b.t /\ a.s = b.s /\ a.b = b.b
\* ToBoolean
Truthy(v) ==
  CASE v.t = "boolean" -> v.b
    [] v.t = "string" -> v.s # ""
    [] OTHER -> TRUE

(* -------------------------- collaborators ------------------------------ *)
\* convertToJobAttempt: framework object -> job attempt record
convertToJobAttempt(fw) ==
  [jobUid |-> fw.uid, attemptIndex |-> fw.attemptId, isLatest |-> FALSE]

\* {...attempt, isLatest: b}
WithIsLatest(attempt, b) == [attempt EXCEPT !.isLatest = b]

\* the answers k8sModel.getClient().get can give for the job's path
K8sAnswers ==
  { [thrown |-> FALSE, hasResponse |-> TRUE,
     response |-> [status |-> 500, message |-> "InternalError", data |-> NoFramework]],
    [thrown |-> TRUE, hasResponse |-> TRUE,
     response |-> [status |-> 500, message |-> "InternalError", data |-> NoFramework]],
    [thrown |-> TRUE, hasResponse |-> FALSE, response |-> NoResponse] }
  \cup
  IF framework = NoFramework
    THEN { [thrown |-> t, hasResponse |-> TRUE,
            response |-> [status |-> 404, message |-> "NotFound", data |-> NoFramework]]
           : t \in BOOLEAN }
    ELSE { [thrown |-> FALSE, hasResponse |-> TRUE,
            response |-> [status |-> 200, message |-> "", data |-> framework]] }

(* ----------------------------- Init ------------------------------------ *)
IdleCall ==
  /\ pc = "idle"
  /\ op = "none"
  /\ jobAttemptIndex = 0
  /\ caught = FALSE
  /\ response = NoResponse
  /\ uid = NoUid
  /\ attemptData = <<>>
  /\ esResult = <<>>
  /\ ret = NoRet
  /\ esSearchCalls = 0
  /\ k8sGetCalls = 0

Init ==
  /\ launcherType \in {"k8s", "yarn"}
  /\ esClient \in BOOLEAN
  /\ esHealth = "green"
  /\ framework = NoFramework
  /\ nextUid = 1
  /\ index = {}
  /\ clock = 0
  /\ IdleCall


(* ------------------------- the two stores ------------------------------ *)
\* A returned result is held until the caller takes it (Consume). The stores
\* and the call variables are disjoint, so a change of a store commutes with
\* Consume: the changes are taken before the return or after Consume.
ResultPending == pc = "idle" /\ op # "none"

\* the orchestrator creates the framework object and assigns its uid
Submit(m) ==
  /\ ~ResultPending
  /\ framework = NoFramework
  /\ nextUid <= MaxUid
  /\ framework' = [uid |-> nextUid, maxRetryCount |-> m, attemptId |-> 0]
  /\ nextUid' = nextUid + 1
  /\ UNCHANGED <<launcherType, esClient, esHealth, index, clock, callVars>>

\* the orchestrator starts the next attempt of the framework
Retried(fw) == [fw EXCEPT !.attemptId = fw.attemptId + 1]

Retry ==
  /\ ~ResultPending
  /\ framework # NoFramework
  /\ framework.attemptId < framework.maxRetryCount
  /\ framework' = Retried(framework)
  /\ UNCHANGED <<launcherType, esClient, esHealth, nextUid, index, clock, callVars>>

\* the framework object is deleted from the orchestrator
Purge ==
  /\ ~ResultPending
  /\ framework # NoFramework
  /\ framework' = NoFramework
  /\ UNCHANGED <<launcherType, esClient, esHealth, nextUid, index, clock, callVars>>

\* a document of the index: {collectTime, objectSnapshot}
Snapshot(t, fw) == [collectTime |-> t, objectSnapshot |-> fw]

\* the ingestion pipeline writes a snapshot of the framework object
Ingest(limit) ==
  /\ ~ResultPending
  /\ framework # NoFramework
  /\ clock < limit
  /\ clock' = clock + 1
  /\ index' = index \cup {Snapshot(clock + 1, framework)}
  /\ UNCHANGED <<launcherType, esClient, esHealth, framework, nextUid, callVars>>

\* the index becomes healthy, unhealthy (non-200 answers) or unreachable
SetHealth(h) ==
  /\ ~ResultPending
  /\ h # esHealth
  /\ esHealth' = h
  /\ UNCHANGED <<launcherType, esClient, framework, nextUid, index, clock, callVars>>

(* -------------------- Elasticsearch, as queried ------------------------ *)
MaxOf(S) == CHOOSE x \in S : \A y \in S : y <= x

RECURSIVE SortDesc(_)
\* the keys of S in descending order
SortDesc(S) == IF S = {} THEN <<>> ELSE <<MaxOf(S)>> \o SortDesc(S \ {MaxOf(S)})

\* the first n elements of a sequence
Take(s, n) == SubSeq(s, 1, IF Len(s) < n THEN Len(s) ELSE n)

\* query.bool.filter.term 'objectSnapshot.metadata.uid.keyword': u
FilterUid(docs, u) == {d \in docs : d.objectSnapshot.uid = u}

\* term 'objectSnapshot.status.attemptStatus.id': id
FilterAttempt(docs, id) == {d \in docs : d.objectSnapshot.attemptId = id}

\* top_hits sorted by collectTime ascending: the oldest document
TopHitsOldest(docs) ==
  IF docs = {} THEN <<>>
  ELSE <<CHOOSE d \in docs : \A e \in docs : d.collectTime <= e.collectTime>>

\* top_hits {sort: [{collectTime: desc}], size: 1}
TopHits(docs) ==
  IF docs = {} THEN <<>>
  ELSE <<CHOOSE d \in docs : \A e \in docs : e.collectTime <= d.collectTime>>

\* terms {field: attemptStatus.id, order: {_key: desc}}: no size is set, so
\* the aggregation returns its default number of buckets
TermsBuckets(docs) ==
  Take(SortDesc({d.objectSnapshot.attemptId : d \in docs}), TermsDefaultSize)

\* the search of list: one bucket per attempt id, each with its top hit
SearchAllAttempts(docs, u) ==
  LET hits == FilterUid(docs, u)
      keys == TermsBuckets(hits)
  IN [i \in 1..Len(keys) |->
        [key |-> keys[i], hits |-> TopHits(FilterAttempt(hits, keys[i]))]]

\* the search of get: the filter aggregation's top hit
SearchOneAttempt(docs, u, id) == TopHits(FilterAttempt(FilterUid(docs, u), id))

\* how elasticSearchClient.search can end at present
SearchOutcomes ==
  CASE esHealth = "green" -> {"ok"}
    [] esHealth = "unreachable" -> {"throw"}
    [] OTHER -> {"ok", "throw"}

\* what elasticSearchClient.cat.health() does at present
HealthProbe ==
  CASE esHealth = "green" -> [thrown |-> FALSE, statusCode |-> 200]
    [] esHealth = "unreachable" -> [thrown |-> TRUE, statusCode |-> 0]
    [] OTHER -> [thrown |-> FALSE, statusCode |-> 503]

(* --------------------------- healthCheck ------------------------------- *)
\* launcherConfig.type === 'yarn' === 'yarn'
LauncherIsYarn ==
  StrictEquals(JsBoolean(StrictEquals(JsString(launcherType), JsString("yarn"))),
               JsString("yarn"))

\* _.isNil(elasticSearchClient)
ClientIsNil == ~esClient

healthCheckResult ==
  IF LauncherIsYarn THEN ReturnBool(FALSE)
  ELSE IF ClientIsNil THEN ReturnBool(FALSE)
  ELSE IF HealthProbe.thrown THEN ReturnBool(FALSE)
  ELSE IF HealthProbe.statusCode = 200 THEN ReturnBool(TRUE)
  ELSE ReturnBool(FALSE)

NoCall == pc = "idle" /\ op = "none"

HealthCheck ==
  /\ NoCall
  /\ op' = "healthCheck"
  /\ ret' = healthCheckResult
  /\ UNCHANGED <<pc, jobAttemptIndex, caught, response, uid, attemptData, esResult,
                 esSearchCalls, k8sGetCalls>>
  /\ UNCHANGED envVars

(* --------------------- the read of the framework ----------------------- *)
\* if (!healthCheck): healthCheck is the function, not its result
GateTestFails == ~Truthy(JsFunction("healthCheck"))

\* error.response != null
HasResponse(ans) == ans.hasResponse

\* response.status === 200
IsOk(status) == status = 200

\* response.status === 400: the wrong status code
IsNotFoundTypo(status) == status = 400

\* response.status >= 400: every client and server error taken as not found
IsNotFoundLoose(status) == status >= 400

\* response.status === 404
IsNotFound(status) == status = 404

\* isNil(uid)
isNil(u) == u = NoUid

\* the emptiness test of list left out
isEmptyBucketsNever(s) == FALSE

\* _.isEmpty(buckets) of list
isEmptyBuckets(s) == Len(s) = 0

\* _.isEmpty(buckets) of get
isEmptyHits(s) == Len(s) = 0

\* try { response = await get(...) } catch (error) { ... }: the answer is
\* rethrown when the error carries no response
Rethrown(ans) == ans.thrown /\ ~HasResponse(ans)

\* the call ends with r
Finish(r) == pc' = "idle" /\ ret' = r

(* ------------------------------- list ---------------------------------- *)
ListFetch ==
  /\ NoCall
  /\ op' = "list"
  /\ UNCHANGED <<jobAttemptIndex, esResult, esSearchCalls>>
  /\ UNCHANGED envVars
  /\ IF GateTestFails
       THEN /\ Finish(ReturnNull(501))
            /\ UNCHANGED <<caught, response, uid, attemptData, k8sGetCalls>>
       ELSE \E ans \in K8sAnswers :
            /\ k8sGetCalls' = 1
            /\ caught' = ans.thrown
            /\ IF Rethrown(ans)
                 THEN /\ Finish(Throw(0, "no response"))
                      /\ UNCHANGED <<response, uid, attemptData>>
                 ELSE /\ response' = ans.response
                      /\ IF IsOk(ans.response.status)
                           THEN /\ uid' = ans.response.data.uid
                                /\ attemptData' =
                                     <<WithIsLatest(convertToJobAttempt(ans.response.data), TRUE)>>
                                /\ IF isNil(ans.response.data.uid)
                                     THEN Finish(ReturnNull(404))
                                     ELSE pc' = "list_search" /\ ret' = NoRet
                           ELSE /\ UNCHANGED <<uid, attemptData>>
                                /\ IF IsNotFound(ans.response.status)
                                     THEN Finish(ReturnNull(404))
                                     ELSE Finish(Throw(ans.response.status,
                                                       ans.response.message))

\* buckets.map(bucket => bucket.collectTime_latest_hits.hits.hits[0]._source.objectSnapshot)
RetryFrameworks(buckets) ==
  [i \in 1..Len(buckets) |-> buckets[i].hits[1].objectSnapshot]

\* jobRetries.map(jobRetry => ({...jobRetry, isLatest: false}))
JobRetries(fws) ==
  [i \in 1..Len(fws) |-> WithIsLatest(convertToJobAttempt(fws[i]), FALSE)]

ListSearch ==
  /\ pc = "list_search"
  /\ UNCHANGED <<op, jobAttemptIndex, caught, response, uid, k8sGetCalls>>
  /\ UNCHANGED envVars
  /\ IF ClientIsNil
       THEN \* elasticSearchClient is undefined: reading .search throws
            /\ Finish(Throw(0, "TypeError"))
            /\ UNCHANGED <<attemptData, esResult, esSearchCalls>>
       ELSE \E outcome \in SearchOutcomes :
            /\ esSearchCalls' = esSearchCalls + 1
            /\ IF outcome = "throw"
                 THEN /\ Finish(Throw(0, "search failed"))
                      /\ UNCHANGED <<attemptData, esResult>>
                 ELSE LET buckets == SearchAllAttempts(index, uid)
                      IN /\ esResult' = [i \in 1..Len(buckets) |-> buckets[i].hits[1]]
                         /\ IF isEmptyBuckets(buckets)
                              THEN /\ Finish(ReturnNull(404))
                                   /\ UNCHANGED attemptData
                              ELSE /\ attemptData' =
                                        attemptData \o JobRetries(RetryFrameworks(buckets))
                                   /\ Finish(Return(200, attemptData'))

(* ------------------------------- get ----------------------------------- *)
\* jobAttemptIndex <= maxRetryCount: the boundary off by one
IsSupersededInclusive(idx, fw) == idx <= fw.maxRetryCount

\* jobAttemptIndex < attemptFramework.spec.retryPolicy.maxRetryCount
IsSuperseded(idx, fw) == idx < fw.maxRetryCount

\* jobAttemptIndex >= maxRetryCount: every later index taken as the current one
IsCurrentOrLater(idx, fw) == idx >= fw.maxRetryCount

\* jobAttemptIndex === attemptFramework.spec.retryPolicy.maxRetryCount
IsCurrent(idx, fw) == idx = fw.maxRetryCount

GetFetch(idx) ==
  /\ NoCall
  /\ op' = "get"
  /\ jobAttemptIndex' = idx
  /\ UNCHANGED <<attemptData, esResult, esSearchCalls>>
  /\ UNCHANGED envVars
  /\ IF GateTestFails
       THEN /\ Finish(ReturnNull(501))
            /\ UNCHANGED <<caught, response, uid, k8sGetCalls>>
       ELSE \E ans \in K8sAnswers :
            /\ k8sGetCalls' = 1
            /\ caught' = ans.thrown
            /\ IF Rethrown(ans)
                 THEN /\ Finish(Throw(0, "no response"))
                      /\ UNCHANGED <<response, uid>>
                 ELSE /\ response' = ans.response
                      /\ IF IsOk(ans.response.status)
                           THEN /\ uid' = ans.response.data.uid
                                /\ IF IsSuperseded(idx, ans.response.data)
                                     THEN IF isNil(ans.response.data.uid)
                                            THEN Finish(ReturnNull(404))
                                            ELSE pc' = "get_search" /\ ret' = NoRet
                                     ELSE IF IsCurrent(idx, ans.response.data)
                                            THEN Finish(Return(200,
                                                   <<WithIsLatest(
                                                       convertToJobAttempt(ans.response.data),
                                                       TRUE)>>))
                                            ELSE Finish(ReturnNull(404))
                           ELSE /\ UNCHANGED uid
                                /\ IF IsNotFound(ans.response.status)
                                     THEN Finish(ReturnNull(404))
                                     ELSE Finish(Throw(ans.response.status,
                                                       ans.response.message))

GetSearch ==
  /\ pc = "get_search"
  /\ UNCHANGED <<op, jobAttemptIndex, caught, response, uid, attemptData, k8sGetCalls>>
  /\ UNCHANGED envVars
  /\ IF ClientIsNil
       THEN \* elasticSearchClient is undefined: reading .search throws
            /\ Finish(Throw(0, "TypeError"))
            /\ UNCHANGED <<esResult, esSearchCalls>>
       ELSE \E outcome \in SearchOutcomes :
            /\ esSearchCalls' = esSearchCalls + 1
            /\ IF outcome = "throw"
                 THEN /\ Finish(Throw(0, "search failed"))
                      /\ UNCHANGED esResult
                 ELSE LET buckets == SearchOneAttempt(index, uid, jobAttemptIndex)
                      IN /\ esResult' = buckets
                         /\ IF isEmptyHits(buckets)
                              THEN Finish(ReturnNull(404))
                              ELSE Finish(Return(200,
                                     <<WithIsLatest(
                                         convertToJobAttempt(buckets[1].objectSnapshot),
                                         FALSE)>>))

\* the caller takes the result; the next call starts afresh
Consume ==
  /\ pc = "idle"
  /\ op # "none"
  /\ op' = "none"
  /\ jobAttemptIndex' = 0
  /\ caught' = FALSE
  /\ response' = NoResponse
  /\ uid' = NoUid
  /\ attemptData' = <<>>
  /\ esResult' = <<>>
  /\ ret' = NoRet
  /\ esSearchCalls' = 0
  /\ k8sGetCalls' = 0
  /\ UNCHANGED <<pc>>
  /\ UNCHANGED envVars

HealthStates == {"green", "unavailable", "unreachable"}

Next ==
  \/ \E m \in 0..MaxRetry : Submit(m)
  \/ Retry
  \/ Purge
  \/ Ingest(MaxClock)
  \/ \E h \in HealthStates : SetHealth(h)
  \/ HealthCheck
  \/ ListFetch
  \/ ListSearch
  \/ \E idx \in 0..MaxRetry + 1 : GetFetch(idx)
  \/ GetSearch
  \/ Consume

Spec == Init /\ [][Next]_vars

(* ------------- a framework that is retried many times ------------------ *)
\* each attempt is snapshotted once, then the orchestrator retries
AttemptCycle ==
  /\ ~ResultPending
  /\ framework # NoFramework
  /\ framework.attemptId < framework.maxRetryCount
  /\ clock' = clock + 1
  /\ index' = index \cup {Snapshot(clock + 1, framework)}
  /\ framework' = Retried(framework)
  /\ UNCHANGED <<launcherType, esClient, esHealth, nextUid, callVars>>

InitDeep ==
  /\ launcherType = "k8s"
  /\ esClient = TRUE
  /\ esHealth = "green"
  /\ framework = [uid |-> 1, maxRetryCount |-> DeepRetry, attemptId |-> 0]
  /\ nextUid = 2
  /\ index = {}
  /\ clock = 0
  /\ IdleCall

NextDeep ==
  \/ AttemptCycle
  \/ ListFetch
  \/ ListSearch
  \/ Consume

SpecDeep == InitDeep /\ [][NextDeep]_vars


(* ============================ the claims =============================== *)
\* the historical source gate: launcher not 'yarn', client configured,
\* health probe answering 200
GateOpen == launcherType # "yarn" /\ esClient /\ esHealth = "green"

\* the gate is closed by configuration, hence during the whole of any call
GateShut == launcherType = "yarn" \/ ~esClient

\* this step ends a call
Completes == pc' = "idle" /\ op' # "none" /\ ~ResultPending

\* the call has ended and was a list or a get
Ended(o) == pc = "idle" /\ op = o

\* the live object of the call, converted, as the latest attempt
LiveEntry(resp) == WithIsLatest(convertToJobAttempt(resp.data), TRUE)

\* the snapshots the index holds of uid u
HistoryOf(u) == {d \in index : d.objectSnapshot.uid = u}

\* the snapshots the index holds of attempt id of uid u
HistoryOfAttempt(u, id) == {d \in HistoryOf(u) : d.objectSnapshot.attemptId = id}

\* d has the latest collection timestamp of the documents D
IsLatestOf(d, D) == d \in D /\ \A e \in D : e.collectTime <= d.collectTime

\* C1: whenever the gate is closed during a call, healthCheck returns false
\* and list and get return {status: 501, data: null} without a search.
C1_ClosedGateAnswers501 ==
  [][ (Completes /\ (GateShut \/ (NoCall /\ ~GateOpen)))
      => /\ op' = "healthCheck" => ret' = ReturnBool(FALSE)
         /\ op' \in {"list", "get"} => ret' = ReturnNull(501) /\ esSearchCalls' = 0
    ]_vars

\* C2: a list that returns 200 has no entry with isLatest false whose
\* attempt identifier is the live object's current attempt identifier.
C2_LiveAttemptReportedOnce ==
  (Ended("list") /\ ret.kind = "return" /\ ret.status = 200)
    => \A i \in 1..Len(ret.data) :
         ~ret.data[i].isLatest => ret.data[i].attemptIndex # response.data.attemptId

\* C3: get with attemptIndex equal to the live maxRetryCount returns 200 with
\* the converted live object, isLatest true, and never calls the search.
C3_CurrentIndexReturnsLive ==
  (Ended("get") /\ response.status = 200
     /\ jobAttemptIndex = response.data.maxRetryCount)
    => ret = Return(200, <<LiveEntry(response)>>) /\ esSearchCalls = 0

\* the index holds a snapshot of the very uid and attempt asked for, and
\* the live object was returned
C3_Witness ==
  /\ Ended("get") /\ response.status = 200
  /\ jobAttemptIndex = response.data.maxRetryCount
  /\ ret.status = 200 /\ ret.data[1].isLatest
  /\ \E d \in index : /\ d.objectSnapshot.uid = response.data.uid
                      /\ d.objectSnapshot.attemptId = jobAttemptIndex

\* C4: get with attemptIndex greater than the live maxRetryCount returns
\* {status: 404, data: null}, whatever the index holds.
C4_LaterIndexNotFound ==
  (Ended("get") /\ response.status = 200
     /\ jobAttemptIndex > response.data.maxRetryCount)
    => ret = ReturnNull(404)

\* the index holds a snapshot with the attempt identifier asked for
C4_Witness ==
  /\ Ended("get") /\ response.status = 200
  /\ jobAttemptIndex > response.data.maxRetryCount
  /\ ret.status = 404
  /\ \E d \in index : d.objectSnapshot.attemptId = jobAttemptIndex

\* C5: with the gate open, get with attemptIndex less than the live
\* maxRetryCount returns 200, isLatest false, with the snapshot of the live
\* uid and that attempt whose collection timestamp is the latest, and 404
\* when there is none; the live object is not returned.
C5_SupersededIndexFromHistory ==
  [][ (Completes /\ op' = "get" /\ response'.status = 200
         /\ jobAttemptIndex' < response'.data.maxRetryCount /\ GateOpen)
      => LET D == HistoryOfAttempt(response'.data.uid, jobAttemptIndex')
         IN IF D = {}
              THEN ret' = ReturnNull(404)
              ELSE \E d \in D :
                     /\ IsLatestOf(d, D)
                     /\ esResult' = <<d>>
                     /\ ret' = Return(200,
                          <<WithIsLatest(convertToJobAttempt(d.objectSnapshot), FALSE)>>)
    ]_vars

\* two snapshots of the attempt asked for, and a snapshot was returned
C5_Witness ==
  /\ Ended("get") /\ response.status = 200
  /\ jobAttemptIndex < response.data.maxRetryCount
  /\ ret.status = 200 /\ ~ret.data[1].isLatest
  /\ Cardinality(HistoryOfAttempt(uid, jobAttemptIndex)) >= 2

\* C6: with the gate open and a non-empty history of the live uid, list
\* returns 200 with the live entry first (isLatest true), then exactly one
\* entry per attempt identifier recorded for the uid, the latest snapshot of
\* each, in strictly descending order of identifier, isLatest false.
C6_ListLiveThenEveryAttempt ==
  [][ (Completes /\ op' = "list" /\ response'.status = 200 /\ GateOpen
         /\ HistoryOf(response'.data.uid) # {})
      => LET H == HistoryOf(response'.data.uid)
             ids == {d.objectSnapshot.attemptId : d \in H}
             data == ret'.data
         IN /\ ret'.kind = "return" /\ ret'.status = 200 /\ ~ret'.null
            /\ Len(data) = 1 + Cardinality(ids)
            /\ data[1] = LiveEntry(response')
            /\ \A i \in 2..Len(data) :
                 /\ ~data[i].isLatest
                 /\ data[i].attemptIndex \in ids
                 /\ i < Len(data) => data[i].attemptIndex > data[i + 1].attemptIndex
                 /\ IsLatestOf(esResult'[i - 1],
                               HistoryOfAttempt(response'.data.uid, data[i].attemptIndex))
    ]_vars

\* C7: when the orchestrator answers 404, returned or carried by a thrown
\* error, list and get return {status: 404, data: null} without a search.
C7_OrchestratorNotFound ==
  ((Ended("list") \/ Ended("get")) /\ response.status = 404)
    => ret = ReturnNull(404) /\ esSearchCalls = 0

\* the 404 came in a thrown error while the index holds snapshots
C7_Witness ==
  /\ Ended("list") \/ Ended("get")
  /\ response.status = 404 /\ caught
  /\ ret.status = 404
  /\ index # {}

\* C8: healthCheck never throws and returns true exactly when the launcher
\* is not 'yarn', the client was configured and the probe answers 200.
C8_HealthCheckIsTheGate ==
  [][ (Completes /\ op' = "healthCheck") => ret' = ReturnBool(GateOpen) ]_vars

\* C9: when the read of the orchestrator fails with a status other than 200
\* and 404, or with no response, list and get throw (with the status and
\* message of the response, if any), call no search and read only once.
C9_UpstreamErrorIsThrown ==
  ((Ended("list") \/ Ended("get")) /\ response.status \notin {200, 404})
    => /\ ret.kind = "throw"
       /\ response # NoResponse =>
            ret.status = response.status /\ ret.message = response.message
       /\ esSearchCalls = 0
       /\ k8sGetCalls = 1

\* a thrown error carrying a response with status 500
C9_Witness ==
  /\ Ended("list") \/ Ended("get")
  /\ response.status = 500 /\ caught
  /\ ret.kind = "throw" /\ ret.status = 500
  /\ index # {}

\* C10: with the gate open and no snapshot of the live uid in the index,
\* list returns {status: 404, data: null}, not the live entry alone.
C10_EmptyHistoryNotFound ==
  [][ (Completes /\ op' = "list" /\ response'.status = 200 /\ GateOpen
         /\ HistoryOf(response'.data.uid) = {})
      => ret' = ReturnNull(404) /\ esSearchCalls' = 1
    ]_vars

\* the search ran and found nothing of the live uid, while the index holds
\* snapshots of an earlier object
C10_Witness ==
  /\ Ended("list") /\ response.status = 200
  /\ ret = ReturnNull(404)
  /\ esSearchCalls = 1 /\ esResult = <<>>
  /\ index # {} /\ HistoryOf(uid) = {}

==========================================================================
